---- MODULE Spec2Model ----
(***************************************************************************)
(* Model of the two integration tests of plonky2-sample:                   *)
(*   src/simple-transfer.rs  test_simple_transfer (current plonky2_evm)    *)
(*   src/sample.rs           test_simple_transfer (older plonky2_evm)      *)
(* Each test builds a pre-state trie holding one sender account, computes  *)
(* by hand the state trie expected after a plain value transfer, calls the *)
(* external prover and then the external verifier.                         *)
(*                                                                         *)
(* The literals of the tests (sender nonce and balance, transferred value, *)
(* the two hashed state keys) are the inputs of the model: Init draws them *)
(* from small sets that contain the literals of the source, so that the    *)
(* test body is checked as a function of them.                             *)
(***************************************************************************)
EXTENDS Integers, Sequences, FiniteSets, TLC

(***************************************************************************)
(* U256 (ethereum_types::U256).  A value is the little-endian sequence of  *)
(* its base-256 digits without leading zero digits (zero is << >>), so     *)
(* that equal numbers are equal sequences.  A U256 has at most U256Bytes   *)
(* digits; the arithmetic operators of U256 panic on overflow.             *)
(***************************************************************************)
U256Bytes == 32

RECURSIVE FromInt(_)
FromInt(n) == IF n = 0 THEN << >> ELSE <<n % 256>> \o FromInt(n \div 256)

RECURSIVE ToInt(_)
ToInt(a) == IF a = << >> THEN 0 ELSE Head(a) + 256 * ToInt(Tail(a))

RECURSIVE Normalize(_)
Normalize(d) ==
    IF d = << >> THEN << >>
    ELSE IF d[Len(d)] = 0 THEN Normalize(SubSeq(d, 1, Len(d) - 1))
    ELSE d

Reverse(s) == [i \in 1..Len(s) |-> s[Len(s) + 1 - i]]

Digit(a, i) == IF i <= Len(a) THEN a[i] ELSE 0

RECURSIVE AddCarry(_, _, _)
AddCarry(a, b, c) ==
    IF a = << >> /\ b = << >>
    THEN (IF c = 0 THEN << >> ELSE <<c>>)
    ELSE LET s == Digit(a, 1) + Digit(b, 1) + c
         IN  <<s % 256>> \o AddCarry(IF a = << >> THEN a ELSE Tail(a),
                                     IF b = << >> THEN b ELSE Tail(b),
                                     s \div 256)

NatAdd(a, b) == AddCarry(a, b, 0)

\* a < b, most significant digit first
RECURSIVE LessFrom(_, _, _)
LessFrom(a, b, i) ==
    IF i = 0 THEN FALSE
    ELSE IF a[i] # b[i] THEN a[i] < b[i]
    ELSE LessFrom(a, b, i - 1)

Less(a, b) ==
    IF Len(a) # Len(b) THEN Len(a) < Len(b) ELSE LessFrom(a, b, Len(a))

\* a - b for b <= a, digit by digit with borrow
RECURSIVE SubBorrow(_, _, _)
SubBorrow(a, b, bw) ==
    IF a = << >> THEN << >>
    ELSE LET d == a[1] - Digit(b, 1) - bw
         IN  <<d % 256>> \o SubBorrow(Tail(a),
                                      IF b = << >> THEN b ELSE Tail(b),
                                      IF d < 0 THEN 1 ELSE 0)

NatSub(a, b) == Normalize(SubBorrow(a, b, 0))

RECURSIVE MulDigit(_, _, _)
MulDigit(a, d, c) ==
    IF a = << >> THEN (IF c = 0 THEN << >> ELSE <<c>>)
    ELSE LET p == a[1] * d + c
         IN  <<p % 256>> \o MulDigit(Tail(a), d, p \div 256)

ShiftByte(a) == IF a = << >> THEN << >> ELSE <<0>> \o a

RECURSIVE NatMul(_, _)
NatMul(a, b) ==
    IF b = << >> THEN << >>
    ELSE NatAdd(Normalize(MulDigit(a, b[1], 0)), ShiftByte(NatMul(a, Tail(b))))

RECURSIVE NatPow(_, _)
NatPow(a, e) == IF e = 0 THEN <<1>> ELSE NatMul(a, NatPow(a, e - 1))

\* The checked operators of U256: overflow is a panic.
Overflows(a) == Len(a) > U256Bytes
SubOverflows(a, b) == Less(a, b)


(***************************************************************************)
(* H256 values are sequences of 32 bytes, most significant first.  The two *)
(* digests the account records hold are the well-known ones.               *)
(***************************************************************************)
\* HashedPartialTrie::from(Node::Empty).hash()
empty_trie_hash ==
    <<86, 232, 31, 23, 27, 204, 85, 166, 255, 131, 69, 230, 146, 192, 248, 110,
      91, 72, 224, 27, 153, 108, 173, 192, 1, 98, 47, 181, 227, 99, 180, 33>>

\* keccak([])
keccak_empty ==
    <<197, 210, 70, 1, 134, 247, 35, 60, 146, 126, 125, 178, 220, 199, 3, 192,
      229, 0, 182, 83, 202, 130, 39, 59, 123, 250, 216, 4, 93, 133, 164, 112>>

(***************************************************************************)
(* Nibbles (eth_trie_utils::nibbles::Nibbles): a sequence of 4-bit values. *)
(* The operations return a result record: err is "none" or "OutOfRange".   *)
(***************************************************************************)
RECURSIVE from_bytes_be(_)
from_bytes_be(bytes) ==
    IF bytes = << >> THEN << >>
    ELSE <<Head(bytes) \div 16, Head(bytes) % 16>> \o from_bytes_be(Tail(bytes))

get_nibble(path, idx) ==
    IF idx >= Len(path)
    THEN [err |-> "OutOfRange", val |-> 0]
    ELSE [err |-> "none", val |-> path[idx + 1]]

\* a truncation that stops at the end of the path instead of failing
truncate_clamped(path, n) ==
    [err |-> "none",
     val |-> SubSeq(path, (IF n > Len(path) THEN Len(path) ELSE n) + 1, Len(path))]

truncate_n_nibbles_front(path, n) ==
    IF n > Len(path)
    THEN [err |-> "OutOfRange", val |-> << >>]
    ELSE [err |-> "none", val |-> SubSeq(path, n + 1, Len(path))]

(***************************************************************************)
(* rlp::encode.  A byte string of one byte below 0x80 is itself; a string  *)
(* of up to 55 bytes is prefixed by 0x80 + length; a longer one by 0xb7 +  *)
(* the length of its length, then its length.  Lists use 0xc0 and 0xf7.    *)
(* A U256 is encoded as its big-endian bytes without leading zero bytes.   *)
(***************************************************************************)
BigEndian(n) == Reverse(FromInt(n))

RlpString(bytes) ==
    IF Len(bytes) = 1 /\ bytes[1] < 128 THEN bytes
    ELSE IF Len(bytes) <= 55 THEN <<128 + Len(bytes)>> \o bytes
    ELSE <<183 + Len(BigEndian(Len(bytes)))>> \o BigEndian(Len(bytes)) \o bytes

RlpList(payload) ==
    IF Len(payload) <= 55 THEN <<192 + Len(payload)>> \o payload
    ELSE <<247 + Len(BigEndian(Len(payload)))>> \o BigEndian(Len(payload)) \o payload

RlpU256(u) == RlpString(Reverse(u))

\* AccountRlp: #[derive(RlpEncodable)], fields in declaration order
rlp_encode_account(a) ==
    RlpList(RlpU256(a.nonce) \o RlpU256(a.balance)
            \o RlpString(a.storage_root) \o RlpString(a.code_hash))

\* AccountRlp::default(): the account of an address the state does not hold
AccountRlp_default ==
    [nonce |-> << >>, balance |-> << >>,
     storage_root |-> empty_trie_hash, code_hash |-> keccak_empty]

(***************************************************************************)
(* Trie nodes (eth_trie_utils Node / PartialTrie).  Every node is a record *)
(* of the same four fields; children holds 16 nodes for a Branch, the one  *)
(* child for an Extension, and nothing otherwise.                          *)
(***************************************************************************)
EmptyNode == [kind |-> "Empty", nibbles |-> << >>, value |-> << >>, children |-> << >>]
Leaf(nibbles, value) ==
    [kind |-> "Leaf", nibbles |-> nibbles, value |-> value, children |-> << >>]
Extension(nibbles, child) ==
    [kind |-> "Extension", nibbles |-> nibbles, value |-> << >>, children |-> <<child>>]
Branch(children, value) ==
    [kind |-> "Branch", nibbles |-> << >>, value |-> value, children |-> children]

\* core::array::from_fn(|_| Node::Empty.into())
EmptyChildren == [i \in 1..16 |-> EmptyNode]

(***************************************************************************)
(* hash(): the commitment of a node is the digest of its encoding, in      *)
(* which every child is replaced by its own commitment.  The digest is     *)
(* kept as a term over its preimage (a collision-free hash).               *)
(***************************************************************************)
RECURSIVE trie_hash(_)
trie_hash(node) ==
    [keccak |-> [kind |-> node.kind, nibbles |-> node.nibbles, value |-> node.value,
                 children |-> [i \in 1..Len(node.children) |->
                                  trie_hash(node.children[i])]]]

(***************************************************************************)
(* insert(): general recursive insertion.  A Leaf or an Extension whose    *)
(* path diverges from the key is split at the first differing nibble into  *)
(* a Branch, under an Extension holding the common prefix when there is    *)
(* one.                                                                    *)
(***************************************************************************)
RECURSIVE CommonPrefixLen(_, _)
CommonPrefixLen(p, q) ==
    IF p = << >> \/ q = << >> THEN 0
    ELSE IF Head(p) # Head(q) THEN 0
    ELSE 1 + CommonPrefixLen(Tail(p), Tail(q))

Drop(p, n) == SubSeq(p, n + 1, Len(p))
Take(p, n) == SubSeq(p, 1, n)

WithPrefix(prefix, node) ==
    IF prefix = << >> THEN node ELSE Extension(prefix, node)

\* a Branch holding `node`'s content, whose path from here is `path`
BranchOver(path, node) ==
    IF path = << >>
    THEN (IF node.kind = "Leaf" THEN Branch(EmptyChildren, node.value) ELSE node)
    ELSE Branch([EmptyChildren EXCEPT ![path[1] + 1] =
                    IF node.kind = "Leaf" THEN Leaf(Tail(path), node.value)
                    ELSE WithPrefix(Tail(path), node.children[1])],
                << >>)

RECURSIVE trie_insert(_, _, _)
trie_insert(node, key, value) ==
    CASE node.kind = "Empty" -> Leaf(key, value)
      [] node.kind = "Branch" ->
            IF key = << >> THEN Branch(node.children, value)
            ELSE Branch([node.children EXCEPT ![key[1] + 1] =
                            trie_insert(node.children[key[1] + 1], Tail(key), value)],
                        node.value)
      [] node.kind = "Leaf" ->
            IF node.nibbles = key THEN Leaf(key, value)
            ELSE LET n == CommonPrefixLen(node.nibbles, key)
                 IN  WithPrefix(Take(key, n),
                                trie_insert(BranchOver(Drop(node.nibbles, n), node),
                                            Drop(key, n), value))
      [] node.kind = "Extension" ->
            LET n == CommonPrefixLen(node.nibbles, key)
            IN  IF n = Len(node.nibbles)
                THEN Extension(node.nibbles,
                               trie_insert(node.children[1], Drop(key, n), value))
                ELSE WithPrefix(Take(key, n),
                                trie_insert(BranchOver(Drop(node.nibbles, n), node),
                                            Drop(key, n), value))

\* get(): the value stored under key, << >> when there is none
RECURSIVE trie_get(_, _)
trie_get(node, key) ==
    CASE node.kind = "Empty" -> << >>
      [] node.kind = "Leaf" -> IF node.nibbles = key THEN node.value ELSE << >>
      [] node.kind = "Extension" ->
            IF Len(key) >= Len(node.nibbles)
               /\ Take(key, Len(node.nibbles)) = node.nibbles
            THEN trie_get(node.children[1], Drop(key, Len(node.nibbles)))
            ELSE << >>
      [] node.kind = "Branch" ->
            IF key = << >> THEN node.value
            ELSE trie_get(node.children[key[1] + 1], Tail(key))


(***************************************************************************)
(* The literals of the tests.                                              *)
(***************************************************************************)
\* fn eth_to_wei: 1 ether = 10^18 wei
eth_to_wei(eth) == NatMul(eth, NatPow(FromInt(10), ToInt(FromInt(18))))

\* keccak(sender), sender = 0x2c7536e3605d9c16a7a3d7b1898e529396a65c23
sender_state_key_lit ==
    <<47, 147, 208, 223, 177, 86, 44, 3, 200, 37, 163, 62, 236, 68, 56, 228,
      104, 193, 127, 255, 100, 154, 232, 68, 192, 4, 6, 89, 133, 174, 41, 69>>

\* keccak(to), to = 0xa0a0a0a0a0a0a0a0a0a0a0a0a0a0a0a0a0a0a0a0
to_state_key_lit ==
    <<206, 163, 113, 123, 35, 162, 159, 101, 178, 7, 246, 88, 45, 254, 90, 227,
      166, 237, 251, 200, 24, 116, 18, 120, 155, 17, 93, 100, 72, 70, 73, 130>>

nonce_lit == 5
value_lit == 100
balance_eth_lit == 100000

txdata_gas == 2 * 16
gas_used_lit == 21000 + txdata_gas
\* the price in `gas_used * 10`
gas_price_lit == 10

(***************************************************************************)
(* The inputs Init draws.  Beside the literals: state keys of other        *)
(* addresses, which share the first nibble, or the first byte, of the      *)
(* sender's key; balances around the cost of the transfer.                 *)
(***************************************************************************)
MaxNonce == 5

Files == {"simple-transfer.rs", "sample.rs"}

key_shares_nibble == [sender_state_key_lit EXCEPT ![1] = 46]
key_shares_byte == [sender_state_key_lit EXCEPT ![2] = 148]

StateKeys == {sender_state_key_lit, to_state_key_lit, key_shares_nibble, key_shares_byte}

Nonces == {FromInt(n) : n \in 0..MaxNonce}
Values == {FromInt(0), FromInt(value_lit), FromInt(value_lit + 1)}
Balances ==
    {FromInt(0), FromInt(value_lit),
     FromInt(gas_used_lit * gas_price_lit),
     FromInt(value_lit + gas_used_lit * gas_price_lit - 1),
     FromInt(value_lit + gas_used_lit * gas_price_lit),
     eth_to_wei(FromInt(balance_eth_lit))}

Literals ==
    [nonce : Nonces, balance : Balances, value : Values,
     sender_state_key : StateKeys, to_state_key : StateKeys]

\* the scenario of the source
ReferenceLiterals ==
    [nonce |-> FromInt(nonce_lit), balance |-> eth_to_wei(FromInt(balance_eth_lit)),
     value |-> FromInt(value_lit),
     sender_state_key |-> sender_state_key_lit, to_state_key |-> to_state_key_lit]

(***************************************************************************)
(* State.                                                                  *)
(***************************************************************************)
VARIABLES
    file,                      \* which test runs
    pc,                        \* the position of the test
    lit,                       \* the literals of this run
    sender_nibbles, to_nibbles,
    sender_account_before, to_account_before,
    state_trie_before, tries_before,
    gas_used, sender_account_after, to_account_after,
    expected_state_trie_after,
    receipt_0, trie_roots_after, inputs,
    proof,                     \* what prove returned
    verdict,                   \* what verify_proof returned
    result,                    \* how the test ended
    probe                      \* a nibble path operation and its outcome

vars == <<file, pc, lit, sender_nibbles, to_nibbles, sender_account_before,
          to_account_before, state_trie_before, tries_before, gas_used,
          sender_account_after, to_account_after, expected_state_trie_after,
          receipt_0, trie_roots_after, inputs, proof, verdict, result,
          probe>>

setupVars == <<sender_nibbles, to_nibbles, sender_account_before,
               state_trie_before, tries_before>>
expectedVars == <<gas_used, sender_account_after, to_account_after,
                  expected_state_trie_after>>
inputVars == <<receipt_0, trie_roots_after, inputs>>

\* values of variables the test has not assigned yet
NoAccount == [nonce |-> << >>, balance |-> << >>, storage_root |-> << >>,
              code_hash |-> << >>]
NoNode == [kind |-> "Unset", nibbles |-> << >>, value |-> << >>, children |-> << >>]
NoTries == [state_trie |-> NoNode, transactions_trie |-> NoNode,
            receipts_trie |-> NoNode]
NoHash == [keccak |-> "unset"]
NoInputs == [tries |-> NoTries]
NoProof == [status |-> "none", state_root |-> NoHash]
NoProbe == [op |-> "none", path |-> << >>, n |-> 0,
            out |-> [err |-> "none", val |-> << >>]]

InitRun ==
    /\ sender_nibbles = << >> /\ to_nibbles = << >>
    /\ sender_account_before = NoAccount /\ to_account_before = NoAccount
    /\ state_trie_before = NoNode /\ tries_before = NoTries
    /\ gas_used = 0
    /\ sender_account_after = NoAccount /\ to_account_after = NoAccount
    /\ expected_state_trie_after = NoNode
    /\ receipt_0 = [status |-> FALSE, cum_gas_used |-> << >>]
    /\ trie_roots_after = [state_root |-> NoHash]
    /\ inputs = NoInputs
    /\ proof = NoProof
    /\ verdict = "none"
    /\ result = "running"

Init ==
    /\ file \in Files
    /\ pc = "start"
    /\ lit \in {l \in Literals : l.sender_state_key # l.to_state_key}
    /\ InitRun
    /\ probe = NoProbe


(***************************************************************************)
(* The computations of the test bodies.  A computation that can panic      *)
(* returns a record: err is "none" or "panic".                             *)
(***************************************************************************)
account_before(nonce, balance) ==
    [nonce |-> nonce, balance |-> balance,
     storage_root |-> empty_trie_hash, code_hash |-> keccak_empty]

\* simple-transfer.rs: balance - value - gas_used * 10, nonce + 1
sender_after_simple(before, value, gas) ==
    LET cost == FromInt(gas * gas_price_lit)
        panics == \/ SubOverflows(before.balance, value)
                  \/ SubOverflows(NatSub(before.balance, value), cost)
                  \/ Overflows(NatAdd(before.nonce, FromInt(1)))
    IN  IF panics THEN [err |-> "panic", val |-> NoAccount]
        ELSE [err |-> "none",
              val |-> [before EXCEPT
                          !.balance = NatSub(NatSub(before.balance, value), cost),
                          !.nonce = NatAdd(before.nonce, FromInt(1))]]

\* sample.rs: balance - value (the gas is a TODO), the nonce is kept
sender_after_sample(before, value) ==
    IF SubOverflows(before.balance, value)
    THEN [err |-> "panic", val |-> NoAccount]
    ELSE [err |-> "none",
          val |-> [before EXCEPT !.balance = NatSub(before.balance, value)]]

\* a credit that is forgotten
to_after_uncredited(before, value) == before

\* AccountRlp { balance: value, ..to_account_before }
to_after(before, value) == [before EXCEPT !.balance = value]

\* children[first.get_nibble(0)] = Leaf; children[second.get_nibble(0)] = Leaf;
\* Node::Branch { children, value: vec![] }
branch_of_two_leaves(first_nibbles, first_value, second_nibbles, second_value) ==
    LET c1 == [EmptyChildren EXCEPT
                  ![get_nibble(first_nibbles, 0).val + 1] =
                      Leaf(truncate_n_nibbles_front(first_nibbles, 1).val, first_value)]
        c2 == [c1 EXCEPT
                  ![get_nibble(second_nibbles, 0).val + 1] =
                      Leaf(truncate_n_nibbles_front(second_nibbles, 1).val, second_value)]
    IN  Branch(c2, << >>)

branch_of_two_leaves_panics(first_nibbles, second_nibbles) ==
    \/ get_nibble(first_nibbles, 0).err # "none"
    \/ truncate_n_nibbles_front(first_nibbles, 1).err # "none"
    \/ get_nibble(second_nibbles, 0).err # "none"
    \/ truncate_n_nibbles_front(second_nibbles, 1).err # "none"

expected_trie(s_nibbles, s_after, t_nibbles, t_after) ==
    branch_of_two_leaves(s_nibbles, rlp_encode_account(s_after),
                         t_nibbles, rlp_encode_account(t_after))

\* a block whose gas used leaves out the gas of the transaction data
block_metadata_without_txdata_gas ==
    [block_timestamp |-> FromInt(1000), block_number |-> FromInt(1),
     block_difficulty |-> FromInt(131072), block_gaslimit |-> <<51, 34, 17, 255>>,
     block_chain_id |-> FromInt(1), block_base_fee |-> FromInt(10),
     block_gas_used |-> FromInt(21000)]

block_metadata_simple ==
    [block_timestamp |-> FromInt(1000), block_number |-> FromInt(1),
     block_difficulty |-> FromInt(131072), block_gaslimit |-> <<51, 34, 17, 255>>,
     block_chain_id |-> FromInt(1), block_base_fee |-> FromInt(10),
     block_gas_used |-> FromInt(21032)]

\* BlockMetadata::default()
block_metadata_default ==
    [block_timestamp |-> << >>, block_number |-> << >>,
     block_difficulty |-> << >>, block_gaslimit |-> << >>,
     block_chain_id |-> << >>, block_base_fee |-> << >>,
     block_gas_used |-> << >>]

(***************************************************************************)
(* The state transition the prover certifies (the engine of the            *)
(* specification): debit value + gas * price and advance the nonce, credit *)
(* the value, insert both accounts into a fresh trie.                      *)
(***************************************************************************)
apply_transfer(s_nibbles, s_before, t_nibbles, t_before, value, gas, price, bump) ==
    LET cost == NatAdd(value, FromInt(gas * price))
    IN  IF Less(s_before.balance, cost)
        THEN [err |-> "InsufficientBalance", val |-> NoNode]
        ELSE [err |-> "none",
              val |-> trie_insert(
                        trie_insert(EmptyNode, s_nibbles,
                            rlp_encode_account(
                                [s_before EXCEPT
                                    !.balance = NatSub(s_before.balance, cost),
                                    !.nonce = NatAdd(s_before.nonce, FromInt(bump))])),
                        t_nibbles,
                        rlp_encode_account(
                            [t_before EXCEPT
                                !.balance = NatAdd(t_before.balance, value)]))]

\* The prover is opaque.  The post-state root a proof of sample.rs's prover
\* claims is that of the transfer with the gas charged, or that of a prover
\* that charges no gas and keeps the nonce.
claimed_roots(l) ==
    LET sn == from_bytes_be(l.sender_state_key)
        tn == from_bytes_be(l.to_state_key)
        sb == account_before(l.nonce, l.balance)
        full == apply_transfer(sn, sb, tn, AccountRlp_default, l.value,
                               gas_used_lit, gas_price_lit, 1)
        bare == apply_transfer(sn, sb, tn, AccountRlp_default, l.value, 0, 0, 0)
    IN  {trie_hash(t.val) : t \in {x \in {full, bare} : x.err = "none"}}


(***************************************************************************)
(* The steps of the tests.                                                 *)
(***************************************************************************)
Panic ==
    /\ result' = "panic"
    /\ pc' = "done"

\* Both files: state keys to nibbles, the sender's account, the pre-state
\* trie of one Leaf, TrieInputs.
Setup ==
    /\ pc = "start"
    /\ pc' = "setup"
    /\ sender_nibbles' = from_bytes_be(lit.sender_state_key)
    /\ to_nibbles' = from_bytes_be(lit.to_state_key)
    /\ sender_account_before' = account_before(lit.nonce, lit.balance)
    /\ to_account_before' =
          IF file = "simple-transfer.rs" THEN AccountRlp_default ELSE to_account_before
    /\ state_trie_before' =
          Leaf(sender_nibbles', rlp_encode_account(sender_account_before'))
    /\ tries_before' = [state_trie |-> state_trie_before',
                        transactions_trie |-> EmptyNode,
                        receipts_trie |-> EmptyNode]
    /\ UNCHANGED <<file, lit, expectedVars, inputVars, proof, verdict,
                   result, probe>>

---------------------------------------------------------------------------
\* simple-transfer.rs

ST_BuildExpected ==
    /\ file = "simple-transfer.rs"
    /\ pc = "setup"
    /\ gas_used' = gas_used_lit
    /\ LET sa == sender_after_simple(sender_account_before, lit.value, gas_used')
       IN  \/ /\ sa.err = "none"
              /\ ~branch_of_two_leaves_panics(sender_nibbles, to_nibbles)
              /\ sender_account_after' = sa.val
              /\ to_account_after' = to_after(to_account_before, lit.value)
              /\ expected_state_trie_after' =
                    expected_trie(sender_nibbles, sender_account_after',
                                  to_nibbles, to_account_after')
              /\ pc' = "expected"
              /\ UNCHANGED result
           \/ /\ sa.err # "none" \/ branch_of_two_leaves_panics(sender_nibbles, to_nibbles)
              /\ Panic
              /\ UNCHANGED <<sender_account_after, to_account_after,
                             expected_state_trie_after>>
    /\ UNCHANGED <<file, lit, setupVars, to_account_before, inputVars, proof,
                   verdict, probe>>

ST_BuildInputs ==
    /\ file = "simple-transfer.rs"
    /\ pc = "expected"
    /\ pc' = "inputs"
    /\ receipt_0' = [status |-> TRUE, cum_gas_used |-> FromInt(21032)]
    /\ trie_roots_after' = [state_root |-> trie_hash(expected_state_trie_after)]
    /\ inputs' = [tries |-> tries_before,
                  trie_roots_after |-> trie_roots_after',
                  genesis_state_trie_root |-> empty_trie_hash,
                  block_metadata |-> block_metadata_simple,
                  txn_number_before |-> FromInt(0),
                  gas_used_before |-> FromInt(0),
                  gas_used_after |-> FromInt(21032)]
    /\ UNCHANGED <<file, lit, setupVars, to_account_before, expectedVars, proof,
                   verdict, result, probe>>

\* a prover error that is dropped: the test goes on to the verifier
ST_Prove_error_dropped ==
    /\ file = "simple-transfer.rs"
    /\ pc = "inputs"
    /\ \/ proof' = [status |-> "Ok",
                    state_root |-> inputs.trie_roots_after.state_root]
       \/ proof' = [status |-> "Err", state_root |-> NoHash]
    /\ pc' = "proved"
    /\ UNCHANGED <<file, lit, setupVars, to_account_before, expectedVars,
                   inputVars, verdict, result, probe>>

\* prove(..)?: a proof whose public values carry the roots of the inputs, or
\* an error, which `?` returns to the caller
ST_Prove ==
    /\ file = "simple-transfer.rs"
    /\ pc = "inputs"
    /\ \/ /\ proof' = [status |-> "Ok",
                       state_root |-> inputs.trie_roots_after.state_root]
          /\ pc' = "proved"
          /\ UNCHANGED result
       \/ /\ proof' = [status |-> "Err", state_root |-> NoHash]
          /\ result' = "ProvingFailed"
          /\ pc' = "done"
    /\ UNCHANGED <<file, lit, setupVars, to_account_before, expectedVars,
                   inputVars, verdict, probe>>

\* verify_proof(..): the value of the test
ST_Verify ==
    /\ file = "simple-transfer.rs"
    /\ pc = "proved"
    /\ pc' = "done"
    /\ \/ verdict' = "accept" /\ result' = "Ok"
       \/ verdict' = "reject" /\ result' = "VerificationFailed"
    /\ UNCHANGED <<file, lit, setupVars, to_account_before, expectedVars,
                   inputVars, proof, probe>>

---------------------------------------------------------------------------
\* sample.rs

S_BuildInputs ==
    /\ file = "sample.rs"
    /\ pc = "setup"
    /\ pc' = "inputs"
    /\ inputs' = [tries |-> tries_before, block_metadata |-> block_metadata_default]
    /\ UNCHANGED <<file, lit, setupVars, to_account_before, expectedVars,
                   receipt_0, trie_roots_after, proof, verdict, result,
                   probe>>

S_Prove ==
    /\ file = "sample.rs"
    /\ pc = "inputs"
    /\ \/ /\ \E r \in claimed_roots(lit) :
                proof' = [status |-> "Ok", state_root |-> r]
          /\ pc' = "proved"
          /\ UNCHANGED result
       \/ /\ proof' = [status |-> "Err", state_root |-> NoHash]
          /\ result' = "ProvingFailed"
          /\ pc' = "done"
    /\ UNCHANGED <<file, lit, setupVars, to_account_before, expectedVars,
                   inputVars, verdict, probe>>

S_BuildExpected ==
    /\ file = "sample.rs"
    /\ pc = "proved"
    /\ LET sa == sender_after_sample(sender_account_before, lit.value)
       IN  \/ /\ sa.err = "none"
              /\ ~branch_of_two_leaves_panics(sender_nibbles, to_nibbles)
              /\ sender_account_after' = sa.val
              /\ to_account_before' = AccountRlp_default
              /\ to_account_after' = to_after(to_account_before', lit.value)
              /\ expected_state_trie_after' =
                    expected_trie(sender_nibbles, sender_account_after',
                                  to_nibbles, to_account_after')
              /\ pc' = "expected"
              /\ UNCHANGED result
           \/ /\ sa.err # "none" \/ branch_of_two_leaves_panics(sender_nibbles, to_nibbles)
              /\ Panic
              /\ UNCHANGED <<sender_account_after, to_account_before,
                             to_account_after, expected_state_trie_after>>
    /\ UNCHANGED <<file, lit, setupVars, gas_used, inputVars, proof,
                   verdict, probe>>

\* assert_eq!(proof.public_values.trie_roots_after.state_root,
\*            expected_state_trie_after.calc_hash())
S_AssertRoots ==
    /\ file = "sample.rs"
    /\ pc = "expected"
    /\ \/ /\ proof.state_root = trie_hash(expected_state_trie_after)
          /\ pc' = "asserted"
          /\ UNCHANGED result
       \/ /\ proof.state_root # trie_hash(expected_state_trie_after)
          /\ Panic
    /\ UNCHANGED <<file, lit, setupVars, to_account_before, expectedVars,
                   inputVars, proof, verdict, probe>>

S_Verify ==
    /\ file = "sample.rs"
    /\ pc = "asserted"
    /\ pc' = "done"
    /\ \/ verdict' = "accept" /\ result' = "Ok"
       \/ verdict' = "reject" /\ result' = "VerificationFailed"
    /\ UNCHANGED <<file, lit, setupVars, to_account_before, expectedVars,
                   inputVars, proof, probe>>

Next ==
    \/ Setup
    \/ ST_BuildExpected \/ ST_BuildInputs \/ ST_Prove \/ ST_Verify
    \/ S_BuildInputs \/ S_Prove \/ S_BuildExpected \/ S_AssertRoots \/ S_Verify

Spec == Init /\ [][Next]_vars

TypeOK ==
    /\ file \in Files
    /\ pc \in {"start", "setup", "expected", "inputs", "proved", "asserted", "done",
             "nibbles"}
    /\ result \in {"running", "Ok", "ProvingFailed", "VerificationFailed", "panic"}
    /\ verdict \in {"none", "accept", "reject"}
    /\ proof.status \in {"none", "Ok", "Err"}


(***************************************************************************)
(* The nibble path operations on their own: Init draws a path and an       *)
(* argument, and one operation is applied to them.                         *)
(***************************************************************************)
MaxPathLen == 3

NibbleValues == {0, 7, 15}

RECURSIVE PathsOfLen(_)
PathsOfLen(n) ==
    IF n = 0 THEN {<< >>}
    ELSE {<<x>> \o p : x \in NibbleValues, p \in PathsOfLen(n - 1)}

Paths == UNION {PathsOfLen(n) : n \in 0..MaxPathLen}

InitNibbles ==
    /\ file = "simple-transfer.rs"
    /\ pc = "nibbles"
    /\ lit = ReferenceLiterals
    /\ InitRun
    /\ \E p \in Paths, n \in 0..(MaxPathLen + 1) :
          probe = [op |-> "none", path |-> p, n |-> n,
                   out |-> [err |-> "none", val |-> << >>]]

ProbeGetNibble ==
    /\ pc = "nibbles"
    /\ probe.op = "none"
    /\ probe' = [probe EXCEPT !.op = "get_nibble",
                              !.out = get_nibble(probe.path, probe.n)]
    /\ UNCHANGED <<file, pc, lit, setupVars, to_account_before, expectedVars,
                   inputVars, proof, verdict, result>>

ProbeTruncate ==
    /\ pc = "nibbles"
    /\ probe.op = "none"
    /\ probe' = [probe EXCEPT !.op = "truncate_n_nibbles_front",
                              !.out = truncate_n_nibbles_front(probe.path, probe.n)]
    /\ UNCHANGED <<file, pc, lit, setupVars, to_account_before, expectedVars,
                   inputVars, proof, verdict, result>>

NextNibbles == ProbeGetNibble \/ ProbeTruncate

SpecNibbles == InitNibbles /\ [][NextNibbles]_vars


(***************************************************************************)
(* Properties.                                                             *)
(***************************************************************************)
ExpectedBuilt == expected_state_trie_after.kind # "Unset"
SenderAfterBuilt == sender_account_after.code_hash # << >>
ToAfterBuilt == to_account_after.code_hash # << >>
InputsBuilt == receipt_0.status

\* value + gas used * gas price of the transfer (21032 at price 10)
TransferCost == NatAdd(lit.value, FromInt(21032 * 10))

\* The post-state of the scenario of the source: the sender with nonce 6 and
\* balance 99999999999999999789580, the receiver with balance 100.
C1_SenderAfterClaimed ==
    [nonce |-> FromInt(6),
     balance |-> <<12, 202, 124, 246, 74, 225, 199, 2, 45, 21>>,
     storage_root |-> empty_trie_hash, code_hash |-> keccak_empty]

C1_ReceiverAfterClaimed ==
    [nonce |-> << >>, balance |-> FromInt(100),
     storage_root |-> empty_trie_hash, code_hash |-> keccak_empty]

C1_ClaimedRoot ==
    trie_hash(trie_insert(
        trie_insert(EmptyNode, from_bytes_be(sender_state_key_lit),
                    rlp_encode_account(C1_SenderAfterClaimed)),
        from_bytes_be(to_state_key_lit),
        rlp_encode_account(C1_ReceiverAfterClaimed)))

\* C1: in the scenario of the source (nonce 5, balance 100000 * 10^18, value
\* 100, gas 21032 at price 10) the expected post-state trie of the test, in
\* either file, has the root of the trie that holds the sender with nonce 6
\* and balance 100000 * 10^18 - 100 - 210320 = 99999999999999999789580 and the
\* receiver with balance 100; and a proof handed to the verifier claims that
\* root.
C1_RecomputedRootIsProversRoot ==
    lit = ReferenceLiterals =>
        /\ ExpectedBuilt => trie_hash(expected_state_trie_after) = C1_ClaimedRoot
        /\ verdict # "none" => proof.state_root = C1_ClaimedRoot

\* C2: whenever the balance covers value + gas used * gas price, the
\* sender-after record has the balance less that cost, the nonce plus one,
\* and the storage root and code hash of the sender-before record.
C2_SenderDebitedAndNonceAdvanced ==
    (SenderAfterBuilt /\ ~Less(sender_account_before.balance, TransferCost)) =>
        /\ NatAdd(sender_account_after.balance, TransferCost)
              = sender_account_before.balance
        /\ sender_account_after.nonce = NatAdd(sender_account_before.nonce, <<1>>)
        /\ sender_account_after.storage_root = sender_account_before.storage_root
        /\ sender_account_after.code_hash = sender_account_before.code_hash

\* C3: the receiver-after record has the receiver-before balance plus the
\* value and the other fields of the receiver-before record, which is the
\* zero account (nonce 0, balance 0, the empty trie's root, the hash of no
\* code).
C3_ReceiverCredited ==
    ToAfterBuilt =>
        /\ to_account_after.balance = NatAdd(to_account_before.balance, lit.value)
        /\ to_account_after.nonce = to_account_before.nonce
        /\ to_account_after.storage_root = to_account_before.storage_root
        /\ to_account_after.code_hash = to_account_before.code_hash
        /\ to_account_before.nonce = << >>
        /\ to_account_before.balance = << >>
        /\ to_account_before.storage_root = empty_trie_hash
        /\ to_account_before.code_hash = keccak_empty

C3_Witness ==
    /\ ToAfterBuilt
    /\ lit.value = FromInt(100)
    /\ to_account_after.balance = FromInt(100)

C7_VerifyAfterProveAndFailuresSurface ==
    /\ verdict # "none" => proof.status = "Ok"
    /\ proof.status = "Err" => (result = "ProvingFailed" /\ verdict = "none")
    /\ verdict = "reject" => result = "VerificationFailed"
    /\ result = "Ok" => verdict = "accept"
    /\ result # "running" => pc = "done"

C7_Witness ==
    /\ proof.status = "Ok"
    /\ verdict = "reject"
    /\ result = "VerificationFailed"

C9_NibblePathOperations ==
    LET p == probe.path
        n == probe.n
        out == probe.out
    IN  /\ probe.op = "truncate_n_nibbles_front" =>
              IF n > Len(p) THEN out.err = "OutOfRange"
              ELSE /\ out.err = "none"
                   /\ Len(out.val) = Len(p) - n
                   /\ \A i \in 1..Len(out.val) : out.val[i] = p[i + n]
                   /\ n = Len(p) =>
                         (out.val = << >> /\ get_nibble(out.val, 0).err = "OutOfRange")
                   /\ n = 1 => <<get_nibble(p, 0).val>> \o out.val = p
        /\ probe.op = "get_nibble" =>
              IF n >= Len(p) THEN out.err = "OutOfRange"
              ELSE out.err = "none" /\ out.val = p[n + 1]

C9_Witness ==
    /\ probe.op = "truncate_n_nibbles_front"
    /\ probe.n = Len(probe.path)
    /\ Len(probe.path) = 2
    /\ probe.out = [err |-> "none", val |-> << >>]

\* C10: in simple-transfer.rs the gas used to debit the sender, 21000 + 2 * 16,
\* is the block's gas used, the receipt's cumulative gas used, and
\* gas_used_after less gas_used_before; and the sender is debited that gas
\* at the block base fee.
C10_GasFiguresAgree ==
    (file = "simple-transfer.rs" /\ InputsBuilt) =>
        /\ gas_used = 21000 + 2 * 16
        /\ inputs.block_metadata.block_gas_used = FromInt(gas_used)
        /\ receipt_0.cum_gas_used = FromInt(gas_used)
        /\ NatAdd(inputs.gas_used_before, FromInt(gas_used)) = inputs.gas_used_after
        /\ NatAdd(NatAdd(sender_account_after.balance, lit.value),
                  NatMul(FromInt(gas_used), inputs.block_metadata.block_base_fee))
              = sender_account_before.balance

C10_Witness ==
    /\ file = "simple-transfer.rs"
    /\ InputsBuilt
    /\ lit = ReferenceLiterals
    /\ proof.status = "Ok"

====
